---------------------------- MODULE Spec2Model ----------------------------
(***************************************************************************)
(* Model of the academic-grade prediction microservice                     *)
(* (microservicio_prediccion): the process-wide ModeloService instance     *)
(* (services.py), the validation / classification helpers                  *)
(* (models.py, serializers.py) and the two POST views that drive them      *)
(* (views.py).                                                             *)
(*                                                                         *)
(* Numbers.  Every float of the program is represented in thousandths:     *)
(* the integer 64999 stands for 64.999.  The thresholds of settings.py     *)
(* (65.0, 85.0, 5.0, 10.0, 0, 100) are exact in binary floating point, so  *)
(* comparisons against them are exact on this grid.                        *)
(*                                                                         *)
(* Objects.  A RandomForestRegressor is a mutable heap object.  heap[o]    *)
(* holds its fitting state and "content", the request whose fit produced   *)
(* its trees.  self.modelo is a reference (0 is None).  A pickle on disk   *)
(* is a snapshot of an object.                                             *)
(***************************************************************************)
EXTENDS Integers, Sequences, FiniteSets, TLC

\* ------------------------------------------------------------------ bounds
\* Number of HTTP requests served in one behaviour.
MaxReq == 3
\* Largest number of rows of a dataset file.
MaxRows == 2

\* One unit of the program's floats, in grid steps (thousandths).
Scale == 10 * 10 * 10

\* --------------------------------------------------------------- settings
THRESHOLD_LOW == 65 * Scale
THRESHOLD_HIGH == 85 * Scale
CONFIDENCE_HIGH_THRESHOLD == 5 * Scale
CONFIDENCE_MEDIUM_THRESHOLD == 10 * Scale

FEATURE_COLUMNS ==
    << "prom_tareas_t1", "prom_examenes_t1", "prom_part_t1", "asistencia_t1",
       "prom_tareas_t2", "prom_examenes_t2", "prom_part_t2", "asistencia_t2" >>

TARGET_COLUMN == "nota_final_t3"

Range(s) == { s[i] : i \in DOMAIN s }

\* The 8 fields of EstudianteRequest, which carry the names of FEATURE_COLUMNS.
Fields == Range(FEATURE_COLUMNS)

\* Field(..., ge=0, le=100) of every field of EstudianteRequest.
FIELD_GE == 0
FIELD_LE == 100 * Scale

\* ----------------------------------------------------- request body values
\* A JSON value of the request body: a number, a string that float() parses
\* to a number, the string "nan" (float() gives NaN), a string float()
\* rejects, null, or the key being absent.
Num(v) == [kind |-> "num", v |-> v]
StrNum(v) == [kind |-> "strnum", v |-> v]
StrNaN == [kind |-> "strnan", v |-> 0]
StrBad == [kind |-> "strbad", v |-> 0]
Null == [kind |-> "null", v |-> 0]
Missing == [kind |-> "missing", v |-> 0]

\* float(value) of the pre-validator validar_numeros: [ok, nan, v].
validar_numeros(value) ==
    CASE value.kind \in {"num", "strnum"} -> [ok |-> TRUE, nan |-> FALSE, v |-> value.v]
      [] value.kind = "strnan" -> [ok |-> TRUE, nan |-> TRUE, v |-> 0]
      [] OTHER -> [ok |-> FALSE, nan |-> FALSE, v |-> 0]

\* FieldValid without le=100.
FieldValid_sin_le(value) ==
    /\ value.kind # "missing"
    /\ LET f == validar_numeros(value)
       IN  /\ f.ok
           /\ ~f.nan
           /\ f.v >= FIELD_GE

\* One field of EstudianteRequest: required (...), the pre-validator, then
\* ge=0 and le=100 (a NaN fails both comparisons).
FieldValid(value) ==
    /\ value.kind # "missing"
    /\ LET f == validar_numeros(value)
       IN  /\ f.ok
           /\ ~f.nan
           /\ f.v >= FIELD_GE
           /\ f.v <= FIELD_LE

\* EstudianteRequest(**data) succeeds iff every field validates.
EstudianteRequestValid(data) == \A f \in Fields : FieldValid(data[f])

\* The validated object: every field as a float.
EstudianteRequest(data) == [f \in Fields |-> validar_numeros(data[f]).v]

\* EstudianteSerializer.validar_entrada: the object, or ValueError.
validar_entrada(data) ==
    IF EstudianteRequestValid(data)
    THEN [ok |-> TRUE, estudiante |-> EstudianteRequest(data)]
    ELSE [ok |-> FALSE, estudiante |-> [f \in Fields |-> 0]]

\* to_features_array that lists the attendance before the participation.
to_features_array_otro_orden(estudiante) ==
    << estudiante["prom_tareas_t1"], estudiante["prom_examenes_t1"],
       estudiante["asistencia_t1"], estudiante["prom_part_t1"],
       estudiante["prom_tareas_t2"], estudiante["prom_examenes_t2"],
       estudiante["asistencia_t2"], estudiante["prom_part_t2"] >>

\* EstudianteSerializer.to_features_array: the 8 values in the listed order.
to_features_array(estudiante) ==
    << estudiante["prom_tareas_t1"], estudiante["prom_examenes_t1"],
       estudiante["prom_part_t1"], estudiante["asistencia_t1"],
       estudiante["prom_tareas_t2"], estudiante["prom_examenes_t2"],
       estudiante["prom_part_t2"], estudiante["asistencia_t2"] >>

\* ------------------------------------------------------ response classifier
\* clasificar_nota with "<=" for "<" at THRESHOLD_LOW.
clasificar_nota_le(nota) ==
    IF nota <= THRESHOLD_LOW THEN "bajo"
    ELSE IF nota < THRESHOLD_HIGH THEN "medio"
    ELSE "alto"

clasificar_nota(nota) ==
    IF nota < THRESHOLD_LOW THEN "bajo"
    ELSE IF nota < THRESHOLD_HIGH THEN "medio"
    ELSE "alto"

\* evaluar_confianza with "<" for "<=" at CONFIDENCE_MEDIUM_THRESHOLD.
evaluar_confianza_lt(diferencia_std) ==
    IF diferencia_std <= CONFIDENCE_HIGH_THRESHOLD THEN "alto"
    ELSE IF diferencia_std < CONFIDENCE_MEDIUM_THRESHOLD THEN "medio"
    ELSE "bajo"

evaluar_confianza(diferencia_std) ==
    IF diferencia_std <= CONFIDENCE_HIGH_THRESHOLD THEN "alto"
    ELSE IF diferencia_std <= CONFIDENCE_MEDIUM_THRESHOLD THEN "medio"
    ELSE "bajo"

\* Rounding of a grid value x >= 0 to a multiple of step, to nearest, ties to
\* even: Python's round(x, n) and format(x, ".nf") on a float whose decimal
\* value is exact.  The result stays in thousandths.
RoundTo(x, step) ==
    LET q == x \div step
        r == x % step
    IN  IF 2 * r < step THEN q * step
        ELSE IF 2 * r > step THEN (q + 1) * step
        ELSE IF q % 2 = 0 THEN q * step
        ELSE (q + 1) * step

\* round(x, 2)
round2(x) == RoundTo(x, 10)

\* f"{nota:.1f}"
format1f(x) == RoundTo(x, 100)

\* generar_mensaje that appends the qualifier to the three canned sentences
\* only.
generar_mensaje_sin_calificador(nota, clasificacion, confianza) ==
    LET conocida == clasificacion \in {"alto", "medio", "bajo"}
        mensaje_base ==
            CASE clasificacion = "alto" -> "Excelente trabajo! Se estima una nota de {nota:.1f} (rendimiento alto)"
              [] clasificacion = "medio" -> "Buen rendimiento. Se estima una nota de {nota:.1f} (rendimiento medio)"
              [] clasificacion = "bajo" -> "Hay oportunidades de mejora. Se estima una nota de {nota:.1f} (rendimiento bajo)"
              [] OTHER -> "Se estima una nota de {nota:.1f}"
        nivel_confianza ==
            CASE conocida /\ confianza = "alto" -> "con alta confianza"
              [] conocida /\ confianza = "medio" -> "con confianza moderada"
              [] conocida /\ confianza = "bajo" -> "con baja confianza"
              [] OTHER -> ""
    IN  << mensaje_base, format1f(nota), " ", nivel_confianza, "." >>

\* PrediccionSerializer.generar_mensaje: the f-string of line 131 as the
\* sequence of its parts; the sentence (whose {nota:.1f} is the second part),
\* a space, the qualifier, a full stop.
generar_mensaje(nota, clasificacion, confianza) ==
    LET mensaje_base ==
            CASE clasificacion = "alto" -> "Excelente trabajo! Se estima una nota de {nota:.1f} (rendimiento alto)"
              [] clasificacion = "medio" -> "Buen rendimiento. Se estima una nota de {nota:.1f} (rendimiento medio)"
              [] clasificacion = "bajo" -> "Hay oportunidades de mejora. Se estima una nota de {nota:.1f} (rendimiento bajo)"
              [] OTHER -> "Se estima una nota de {nota:.1f}"
        nivel_confianza ==
            CASE confianza = "alto" -> "con alta confianza"
              [] confianza = "medio" -> "con confianza moderada"
              [] confianza = "bajo" -> "con baja confianza"
              [] OTHER -> ""
    IN  << mensaje_base, format1f(nota), " ", nivel_confianza, "." >>

create_response(nota, diferencia_std) ==
    LET clasificacion == clasificar_nota(nota)
        nivel_confianza == evaluar_confianza(diferencia_std)
        mensaje == generar_mensaje(nota, clasificacion, nivel_confianza)
    IN  [ nota_estimada |-> round2(nota),
          clasificacion |-> clasificacion,
          nivel_confianza |-> nivel_confianza,
          confianza_valor |-> round2(diferencia_std),
          mensaje |-> mensaje ]

\* ------------------------------------------------------------------ dataset
\* A cell of the CSV: a number or a missing value (NaN after read_csv).
Cell(v) == [na |-> FALSE, v |-> v]
NA == [na |-> TRUE, v |-> 0]

required_columns == FEATURE_COLUMNS \o << TARGET_COLUMN >>

\* DatasetSerializer.validar_columnas: TRUE, or ValueError (FALSE) when a
\* required column is missing.
validar_columnas(df) == Range(required_columns) \ df.columns = {}

\* dropna that looks at the required columns only: df.dropna(subset=...).
dropna_subset(df) ==
    [df EXCEPT !.rows = SelectSeq(df.rows,
        LAMBDA row : \A c \in df.columns \cap Range(required_columns) : ~row[c].na)]

\* df.dropna(): the rows with no missing value in any column.
dropna(df) ==
    [df EXCEPT !.rows = SelectSeq(df.rows, LAMBDA row : \A c \in df.columns : ~row[c].na)]

\* df_clean[(df_clean[col] >= 0) & (df_clean[col] <= 100)]; a NaN fails both.
filtrar_rango(df, col) ==
    [df EXCEPT !.rows = SelectSeq(df.rows,
        LAMBDA row : ~row[col].na /\ row[col].v >= 0 /\ row[col].v <= 100 * Scale)]

RECURSIVE limpiar_columnas(_, _)
limpiar_columnas(df, cols) ==
    IF cols = << >> THEN df
    ELSE limpiar_columnas(
            IF Head(cols) \in df.columns THEN filtrar_rango(df, Head(cols)) ELSE df,
            Tail(cols))

\* DatasetSerializer.limpiar_datos
limpiar_datos(df) == limpiar_columnas(dropna(df), required_columns)

\* train_test_split that accepts an empty train partition.
train_test_split_sin_control(n) ==
    LET n_test == (n + 4) \div 5
        n_train == n - n_test
    IN  [ok |-> TRUE, n_train |-> n_train, n_test |-> n_test]

\* train_test_split(X, y, test_size=0.2): the sizes of the two partitions,
\* n_test = ceil(0.2 * n) and n_train = n - n_test; ValueError (ok = FALSE)
\* when the train partition would be empty.
train_test_split(n) ==
    LET n_test == (n + 4) \div 5
        n_train == n - n_test
    IN  [ok |-> n_train > 0, n_train |-> n_train, n_test |-> n_test]

\* Lines 93-104 of entrenar_modelo, which touch no shared state: read the
\* CSV, validate the columns, clean, split.  ok = FALSE is an exception;
\* filas_total and filas count the rows before and after cleaning.
preparar_datos(ds) ==
    IF ~ds.exists THEN
        [ok |-> FALSE, error |-> "FileNotFoundError", filas_total |-> -1, filas |-> -1,
         n_train |-> 0, n_test |-> 0]
    ELSE IF ~validar_columnas(ds) THEN
        [ok |-> FALSE, error |-> "Faltan columnas en el dataset",
         filas_total |-> Len(ds.rows), filas |-> -1, n_train |-> 0, n_test |-> 0]
    ELSE LET df == limpiar_datos(ds)
             sp == train_test_split(Len(df.rows))
         IN  IF ~sp.ok THEN
                 [ok |-> FALSE, error |-> "the resulting train set will be empty",
                  filas_total |-> Len(ds.rows), filas |-> Len(df.rows),
                  n_train |-> 0, n_test |-> 0]
             ELSE [ok |-> TRUE, error |-> "", filas_total |-> Len(ds.rows),
                   filas |-> Len(df.rows), n_train |-> sp.n_train, n_test |-> sp.n_test]

\* ------------------------------------------------------------ input samples
\* The request of the OpenAPI example of views.py.
BaseRequest ==
    [f \in Fields |->
        CASE f = "prom_tareas_t1" -> Num(85 * Scale)
          [] f = "prom_examenes_t1" -> Num(78 * Scale)
          [] f = "prom_part_t1" -> Num(92 * Scale)
          [] f = "asistencia_t1" -> Num(95 * Scale)
          [] f = "prom_tareas_t2" -> Num(87 * Scale)
          [] f = "prom_examenes_t2" -> Num(82 * Scale)
          [] f = "prom_part_t2" -> Num(88 * Scale)
          [] OTHER -> Num(93 * Scale)]

\* Values a single field is replaced by: the ends of the range, the first
\* grid value beyond each end, 150, and the non-numbers.
FieldSamples ==
    { Num(0), Num(100 * Scale), Num(-1), Num(100 * Scale + 1), Num(150 * Scale),
      StrNum(50 * Scale), StrNaN, StrBad, Null, Missing }

Requests ==
    {BaseRequest}
    \cup { [BaseRequest EXCEPT ![f] = x] : f \in Fields, x \in FieldSamples }
    \cup { [BaseRequest EXCEPT !["prom_tareas_t1"] = x, !["asistencia_t2"] = y] :
             x \in {Missing, Num(100 * Scale)}, y \in {StrBad, Num(-1)} }

AllColumns == Range(required_columns) \cup {"extra"}

GoodRow == [c \in AllColumns |-> Cell(70 * Scale)]

\* Rows of a CSV: a clean one, the ends of the range, and one cell that is
\* missing or one grid step outside the range.
RowSamples ==
    { GoodRow,
      [GoodRow EXCEPT !["prom_tareas_t1"] = Cell(0), ![TARGET_COLUMN] = Cell(100 * Scale)],
      [GoodRow EXCEPT !["prom_examenes_t2"] = NA],
      [GoodRow EXCEPT !["extra"] = NA],
      [GoodRow EXCEPT !["asistencia_t2"] = Cell(100 * Scale + 1)],
      [GoodRow EXCEPT ![TARGET_COLUMN] = Cell(-1)] }

ColumnSamples ==
    { AllColumns, Range(required_columns),
      Range(required_columns) \ {"asistencia_t2"}, AllColumns \ {TARGET_COLUMN} }

RowSeqs == UNION { [1..n -> RowSamples] : n \in 0..MaxRows }

\* The CSV files the training may find at DATASET_PATH.
Datasets ==
    { [exists |-> FALSE, columns |-> {}, rows |-> << >>] }
    \cup { [exists |-> TRUE, columns |-> cs,
            rows |-> [i \in DOMAIN rs |-> [c \in cs |-> rs[i][c]]]] :
             cs \in ColumnSamples, rs \in RowSeqs }

\* Predictions and spreads a fitted forest returns (library output).
\* The small input sets: one valid and one invalid request; a missing file,
\* an empty file and a file of two clean rows.
ConcRequests == { BaseRequest, [BaseRequest EXCEPT !["asistencia_t1"] = Num(150 * Scale)] }

ConcDatasets ==
    { ds \in Datasets :
        \/ ~ds.exists
        \/ ds.columns = AllColumns /\ ds.rows \in {<< >>, << GoodRow, GoodRow >>} }

\* Scores and spreads around the thresholds of settings.py, none of them
\* half-way between two hundredths.
ScoreSamples ==
    { 0, 64994, 64996, 64999, 65 * Scale, 65001, 75 * Scale,
      84994, 84996, 84999, 85 * Scale, 85001, 100 * Scale }

SpreadSamples ==
    { 0, 4996, 4999, 5 * Scale, 5001, 5004, 9996, 9999, 10 * Scale, 10001, 10004,
      20 * Scale }

ModelScores == { 64996, 90 * Scale }
ModelSpreads == { 3 * Scale, 10004 }

\* -------------------------------------------------------------------- state
VARIABLES
    modelo,          \* self.modelo: 0 (None) or a reference into heap
    is_loaded,       \* self.is_loaded
    heap,            \* the regressor objects: [st, content]
    disk,            \* the file at MODEL_PATH
    nreq,            \* requests started so far
    tpc,             \* position of the thread serving POST /modelo/entrenar
    trid,            \* its request number
    forzar_reentrenamiento,
    texiste,         \* MODEL_PATH.exists() at line 87
    tcarga,          \* what cargar_modelo found on disk at line 88, "none" if not called
    tref,            \* the object whose fit() the trainer is running
    tdatos,          \* what lines 93-104 produced for this request
    tsaved,          \* whether guardar_modelo wrote the artifact: "none", "yes", "no"
    tresp,           \* the answer of POST /modelo/entrenar
    tantes,          \* self.modelo and self.is_loaded when entrenar_modelo was called
    ppc,             \* position of the thread serving POST /predecir
    prid,            \* its request number
    request,         \* request.data of POST /predecir
    sin_modelo,      \* the condition of line 149
    pcarga,          \* what cargar_modelo found on disk at line 151, "none" if not called
    estudiante,      \* the validated EstudianteRequest
    encoded,         \* to_features_array ran for this request
    pused,           \* the objects predecir called into, with their state then
    nota,            \* prediccion
    diferencia_std,  \* std_prediccion
    presp,           \* the answer of POST /predecir
    fn_args,         \* a direct call of a serializer function: its name and arguments
    fn_ret           \* what that call returned

vars == << modelo, is_loaded, heap, disk, nreq,
           tpc, trid, forzar_reentrenamiento, texiste, tcarga, tref, tdatos, tsaved, tresp, tantes,
           ppc, prid, request, sin_modelo, pcarga, estudiante, encoded, pused, nota, diferencia_std, presp,
           fn_args, fn_ret >>

shared == << modelo, is_loaded, heap, disk >>
tvars == << tpc, trid, forzar_reentrenamiento, texiste, tcarga, tref, tdatos, tsaved, tresp, tantes >>
pvars == << ppc, prid, request, sin_modelo, pcarga, estudiante, encoded, pused, nota, diferencia_std, presp >>
fvars == << fn_args, fn_ret >>

Objects == 1..MaxReq

NoFit == -1
FreeObj == [st |-> "free", content |-> NoFit]
Absent == [kind |-> "absent", st |-> "free", content |-> NoFit]
\* A truncated or half-written file: pickle.load raises on it.
Corrupt == [kind |-> "corrupt", st |-> "free", content |-> NoFit]
Pickle(obj) == [kind |-> "pickle", st |-> obj.st, content |-> obj.content]

NoDatos ==
    [ok |-> FALSE, error |-> "", filas_total |-> -1, filas |-> -1, n_train |-> 0, n_test |-> 0]
NoTResp == [status |-> 0, mensaje |-> "", cargado |-> FALSE, n_train |-> 0, n_test |-> 0]
NoBody == [ nota_estimada |-> 0, clasificacion |-> "", nivel_confianza |-> "",
            confianza_valor |-> 0, mensaje |-> << >> ]
NoPResp == [status |-> 0, error |-> "", body |-> NoBody]
NoEstudiante == [f \in Fields |-> 0]
NoAntes == [modelo |-> 0, is_loaded |-> FALSE]
NoCall == [fn |-> "none"]
NoRet == [done |-> FALSE]

\* The state after ModeloService.__init__; the artifact of an earlier run of
\* the process (content 0) may be on disk.
Init ==
    /\ modelo = 0
    /\ is_loaded = FALSE
    /\ heap = [o \in Objects |-> FreeObj]
    /\ disk \in {Absent, Pickle([st |-> "fitted", content |-> 0])}
    /\ nreq = 0
    /\ tpc = "idle" /\ trid = 0 /\ forzar_reentrenamiento = FALSE /\ tref = 0
    /\ texiste = FALSE /\ tcarga = "none"
    /\ tdatos = NoDatos /\ tsaved = "none" /\ tresp = NoTResp /\ tantes = NoAntes
    /\ ppc = "idle" /\ prid = 0 /\ request = BaseRequest /\ estudiante = NoEstudiante
    /\ sin_modelo = FALSE /\ pcarga = "none"
    /\ encoded = FALSE /\ pused = << >> /\ nota = 0 /\ diferencia_std = 0
    /\ presp = NoPResp
    /\ fn_args = NoCall /\ fn_ret = NoRet

\* ------------------------------------------------------------ cargar_modelo
\* cargar_modelo_load that keeps the model already in memory instead of
\* reading the artifact.
cargar_modelo_load_en_memoria(rid, ok, fail, exc) ==
    CASE modelo # 0 ->
            [modelo |-> modelo, heap |-> heap, pc |-> ok]
      [] disk.kind = "absent" ->
            [modelo |-> modelo, heap |-> heap, pc |-> fail]
      [] disk.kind = "corrupt" ->
            [modelo |-> modelo, heap |-> heap, pc |-> exc]
      [] OTHER ->
            [modelo |-> rid,
             heap |-> [heap EXCEPT ![rid] = [st |-> disk.st, content |-> disk.content]],
             pc |-> ok]

\* Lines 43-45: MODEL_PATH.exists(), open, pickle.load, assign self.modelo.
\* ok: the step after a successful load (line 46); fail: the caller's
\* continuation on "return False"; exc: the except branch (line 54).
\* The loaded object is a new object, numbered by the request that loads it.
cargar_modelo_load(rid, ok, fail, exc) ==
    CASE disk.kind = "absent" ->
            [modelo |-> modelo, heap |-> heap, pc |-> fail]
      [] disk.kind = "corrupt" ->
            [modelo |-> modelo, heap |-> heap, pc |-> exc]
      [] OTHER ->
            [modelo |-> rid,
             heap |-> [heap EXCEPT ![rid] = [st |-> disk.st, content |-> disk.content]],
             pc |-> ok]

\* ----------------------------------------------- POST /modelo/entrenar thread
\* ModeloView.post, lines 145-146, and line 87 of entrenar_modelo.
TrainStart ==
    /\ tpc = "idle"
    /\ nreq < MaxReq
    /\ nreq' = nreq + 1
    /\ trid' = nreq + 1
    /\ texiste' = (disk.kind # "absent")
    /\ tantes' = [modelo |-> modelo, is_loaded |-> is_loaded]
    /\ \E forzar \in BOOLEAN :
        /\ forzar_reentrenamiento' = forzar
        /\ tpc' = IF texiste' /\ ~forzar THEN "cargar" ELSE "read"
    /\ tcarga' = "none"
    /\ tref' = 0 /\ tdatos' = NoDatos /\ tsaved' = "none" /\ tresp' = NoTResp
    /\ UNCHANGED << fvars, shared, pvars >>

\* Line 88, cargar_modelo lines 43-45.
TrainCargar ==
    /\ tpc = "cargar"
    /\ LET r == cargar_modelo_load(trid, "cargar_ok", "read", "cargar_exc")
       IN  /\ modelo' = r.modelo
           /\ heap' = r.heap
           /\ tpc' = r.pc
    /\ tcarga' = disk.kind
    /\ UNCHANGED << fvars, is_loaded, disk, nreq, trid, tantes, forzar_reentrenamiento, texiste, tref,
                    tdatos, tsaved, tresp, pvars >>

\* TrainCargarOk without the return of line 89: training goes on.
TrainCargarOk_sin_return ==
    /\ tpc = "cargar_ok"
    /\ is_loaded' = TRUE
    /\ tpc' = "read"
    /\ UNCHANGED << fvars, modelo, heap, disk, nreq, trid, tantes, forzar_reentrenamiento, texiste, tcarga,
                    tref, tdatos, tsaved, tresp, pvars >>

\* cargar_modelo lines 46-48, then line 89 and the 200 of ModeloView.post.
TrainCargarOk ==
    /\ tpc = "cargar_ok"
    /\ is_loaded' = TRUE
    /\ tresp' = [status |-> 200, mensaje |-> "Modelo ya existe y fue cargado",
                 cargado |-> TRUE, n_train |-> 0, n_test |-> 0]
    /\ tpc' = "idle"
    /\ UNCHANGED << fvars, modelo, heap, disk, nreq, trid, tantes, forzar_reentrenamiento, texiste, tcarga, tref,
                    tdatos, tsaved, pvars >>

\* cargar_modelo lines 52-55: the load raised; training goes on at line 91.
TrainCargarExc ==
    /\ tpc = "cargar_exc"
    /\ is_loaded' = FALSE
    /\ tpc' = "read"
    /\ UNCHANGED << fvars, modelo, heap, disk, nreq, trid, tantes, forzar_reentrenamiento, texiste, tcarga, tref,
                    tdatos, tsaved, tresp, pvars >>

\* The except of lines 132-134 and of ModeloView.post lines 148-153.
TrainError(e) ==
    [status |-> 500, mensaje |-> e, cargado |-> FALSE, n_train |-> 0, n_test |-> 0]

\* Lines 93-104.
TrainRead(datasets) ==
    /\ tpc = "read"
    /\ \E ds \in datasets :
        LET d == preparar_datos(ds)
        IN  /\ tdatos' = d
            /\ IF d.ok
               THEN tpc' = "new" /\ tresp' = tresp
               ELSE tpc' = "idle" /\ tresp' = TrainError(d.error)
    /\ UNCHANGED << fvars, shared, nreq, trid, tantes, forzar_reentrenamiento, texiste, tcarga, tref, tsaved, pvars >>

\* Line 107: self.modelo = RandomForestRegressor(**MODEL_CONFIG).
TrainNew ==
    /\ tpc = "new"
    /\ heap' = [heap EXCEPT ![trid] = [st |-> "unfitted", content |-> NoFit]]
    /\ modelo' = trid
    /\ tpc' = "fit"
    /\ UNCHANGED << fvars, is_loaded, disk, nreq, trid, tantes, forzar_reentrenamiento, texiste, tcarga, tref,
                    tdatos, tsaved, tresp, pvars >>

\* Line 108, the call: self.modelo is read and fit() starts on that object.
TrainFitBegin ==
    /\ tpc = "fit"
    /\ tref' = modelo
    /\ heap' = [heap EXCEPT ![modelo].st = "partial"]
    /\ tpc' = "fitting"
    /\ UNCHANGED << fvars, modelo, is_loaded, disk, nreq, trid, tantes, forzar_reentrenamiento, texiste, tcarga,
                    tdatos, tsaved, tresp, pvars >>

\* Line 108, the return: the object holds the forest of this training.
TrainFitEnd ==
    /\ tpc = "fitting"
    /\ heap' = [heap EXCEPT ![tref] = [st |-> "fitted", content |-> trid]]
    /\ tpc' = "eval"
    /\ UNCHANGED << fvars, modelo, is_loaded, disk, nreq, trid, tantes, forzar_reentrenamiento, texiste, tcarga, tref,
                    tdatos, tsaved, tresp, pvars >>

\* Lines 111-113: self.modelo.predict(X_test), which raises on an object
\* that is not fitted.
TrainEval ==
    /\ tpc = "eval"
    /\ IF heap[modelo].st = "fitted"
       THEN tpc' = "save" /\ tresp' = tresp
       ELSE tpc' = "idle" /\ tresp' = TrainError("NotFittedError")
    /\ UNCHANGED << fvars, shared, nreq, trid, tantes, forzar_reentrenamiento, texiste, tcarga, tref, tdatos, tsaved, pvars >>

\* guardar_modelo lines 66-68: mkdir and open(MODEL_PATH, 'wb'), which
\* truncates the file; or an exception, caught at line 72.
TrainSaveOpen ==
    /\ tpc = "save"
    /\ \/ /\ disk' = Corrupt
          /\ tpc' = "dump"
          /\ tsaved' = tsaved
       \/ /\ disk' = disk
          /\ tpc' = "flag"
          /\ tsaved' = "no"
    /\ UNCHANGED << fvars, modelo, is_loaded, heap, nreq, trid, tantes, forzar_reentrenamiento, texiste, tcarga, tref,
                    tdatos, tresp, pvars >>

\* TrainSaveDump without the try/except of guardar_modelo: the exception of
\* pickle.dump reaches the except of entrenar_modelo.
TrainSaveDump_sin_except ==
    /\ tpc = "dump"
    /\ \/ /\ disk' = Pickle(heap[modelo])
          /\ tsaved' = "yes"
          /\ tpc' = "flag"
          /\ tresp' = tresp
       \/ /\ disk' = Corrupt
          /\ tsaved' = "no"
          /\ tpc' = "idle"
          /\ tresp' = TrainError("Error guardando modelo")
    /\ UNCHANGED << fvars, modelo, is_loaded, heap, nreq, trid, tantes, forzar_reentrenamiento, texiste,
                    tcarga, tref, tdatos, pvars >>

\* guardar_modelo line 69: pickle.dump(self.modelo, f); or an exception,
\* caught at line 72, which leaves the truncated file.
TrainSaveDump ==
    /\ tpc = "dump"
    /\ \/ /\ disk' = Pickle(heap[modelo])
          /\ tsaved' = "yes"
       \/ /\ disk' = Corrupt
          /\ tsaved' = "no"
    /\ tpc' = "flag"
    /\ UNCHANGED << fvars, modelo, is_loaded, heap, nreq, trid, tantes, forzar_reentrenamiento, texiste, tcarga, tref,
                    tdatos, tresp, pvars >>

\* Lines 117-130 and the 200 of ModeloView.post.
TrainFlag ==
    /\ tpc = "flag"
    /\ is_loaded' = TRUE
    /\ tresp' = [status |-> 200, mensaje |-> "Modelo entrenado exitosamente",
                 cargado |-> TRUE, n_train |-> tdatos.n_train, n_test |-> tdatos.n_test]
    /\ tpc' = "idle"
    /\ UNCHANGED << fvars, modelo, heap, disk, nreq, trid, tantes, forzar_reentrenamiento, texiste, tcarga, tref,
                    tdatos, tsaved, pvars >>

\* ----------------------------------------------------- POST /predecir thread
\* PrediccionView.post, lines 87-98: a ValueError is answered 400 with the
\* text of the exception, any other exception 500 with a fixed text.
PrediccionView_except(exc) ==
    IF exc.type = "ValueError"
    THEN [status |-> 400, error |-> exc.msg, body |-> NoBody]
    ELSE [status |-> 500, error |-> "Error interno del servidor", body |-> NoBody]

ValueError(msg) == [type |-> "ValueError", msg |-> msg]

\* PrediccionView.post, line 70: validar_entrada(request.data).
PredStart(requests) ==
    /\ ppc = "idle"
    /\ nreq < MaxReq
    /\ nreq' = nreq + 1
    /\ prid' = nreq + 1
    /\ \E data \in requests :
        LET v == validar_entrada(data)
        IN  /\ request' = data
            /\ estudiante' = v.estudiante
            /\ IF v.ok
               THEN ppc' = "check" /\ presp' = NoPResp
               ELSE /\ ppc' = "idle"
                    /\ presp' = PrediccionView_except(ValueError("Datos invalidos: ..."))
    /\ sin_modelo' = FALSE /\ pcarga' = "none"
    /\ encoded' = FALSE /\ pused' = << >> /\ nota' = 0 /\ diferencia_std' = 0
    /\ UNCHANGED << fvars, shared, tvars >>

\* predecir, line 149.
PredCheck ==
    /\ ppc = "check"
    /\ sin_modelo' = (~is_loaded \/ modelo = 0)
    /\ ppc' = IF sin_modelo' THEN "cargar" ELSE "predict"
    /\ UNCHANGED << fvars, shared, nreq, tvars, prid, request, pcarga, estudiante, encoded, pused,
                    nota, diferencia_std, presp >>

\* Line 151, cargar_modelo lines 43-45; "return False" raises at line 152.
PredCargar ==
    /\ ppc = "cargar"
    /\ LET r == cargar_modelo_load(prid, "cargar_ok", "unavailable", "cargar_exc")
       IN  /\ modelo' = r.modelo
           /\ heap' = r.heap
           /\ ppc' = r.pc
    /\ pcarga' = disk.kind
    /\ UNCHANGED << fvars, is_loaded, disk, nreq, tvars, prid, request, sin_modelo, estudiante, encoded,
                    pused, nota, diferencia_std, presp >>

\* PredCargarOk without line 46, is_loaded = True.
PredCargarOk_sin_flag ==
    /\ ppc = "cargar_ok"
    /\ ppc' = "predict"
    /\ UNCHANGED << fvars, shared, nreq, tvars, prid, request, sin_modelo, pcarga, estudiante,
                    encoded, pused, nota, diferencia_std, presp >>

\* cargar_modelo lines 46-48.
PredCargarOk ==
    /\ ppc = "cargar_ok"
    /\ is_loaded' = TRUE
    /\ ppc' = "predict"
    /\ UNCHANGED << fvars, modelo, heap, disk, nreq, tvars, prid, request, sin_modelo, pcarga, estudiante, encoded,
                    pused, nota, diferencia_std, presp >>

\* cargar_modelo lines 52-55.
PredCargarExc ==
    /\ ppc = "cargar_exc"
    /\ is_loaded' = FALSE
    /\ ppc' = "unavailable"
    /\ UNCHANGED << fvars, modelo, heap, disk, nreq, tvars, prid, request, sin_modelo, pcarga, estudiante, encoded,
                    pused, nota, diferencia_std, presp >>

\* Line 152, raised out of predecir into PrediccionView.post.
PredUnavailable ==
    /\ ppc = "unavailable"
    /\ presp' = PrediccionView_except(ValueError("Modelo no disponible. Debe entrenar primero."))
    /\ ppc' = "idle"
    /\ UNCHANGED << fvars, shared, nreq, tvars, prid, request, sin_modelo, pcarga, estudiante, encoded, pused,
                    nota, diferencia_std >>

\* The except of lines 177-179, raised into PrediccionView.post.
PredError(cause) ==
    PrediccionView_except(ValueError("Error realizando prediccion: " \o cause))

\* Lines 156-159: the features, then self.modelo.predict(features).  An
\* object that is not fitted raises; one that is being fitted either raises
\* or answers from the trees it has.
PredPredict ==
    /\ ppc = "predict"
    /\ encoded' = TRUE
    /\ pused' = Append(pused, [obj |-> modelo, st |-> heap[modelo].st])
    /\ \/ /\ heap[modelo].st \in {"fitted", "partial"}
          /\ nota' \in ModelScores
          /\ ppc' = "trees"
          /\ presp' = presp
       \/ /\ heap[modelo].st \in {"unfitted", "partial"}
          /\ nota' = nota
          /\ ppc' = "idle"
          /\ presp' = PredError("NotFittedError")
    /\ UNCHANGED << fvars, shared, nreq, tvars, prid, request, sin_modelo, pcarga, estudiante, diferencia_std >>

\* Lines 162-166: self.modelo.estimators_, read again from self.modelo, and
\* the standard deviation of the trees' predictions.
PredTrees ==
    /\ ppc = "trees"
    /\ pused' = Append(pused, [obj |-> modelo, st |-> heap[modelo].st])
    /\ \/ /\ heap[modelo].st \in {"fitted", "partial"}
          /\ diferencia_std' \in ModelSpreads
          /\ ppc' = "resp"
          /\ presp' = presp
       \/ /\ heap[modelo].st \in {"unfitted", "partial"}
          /\ diferencia_std' = diferencia_std
          /\ ppc' = "idle"
          /\ presp' = PredError("AttributeError: estimators_")
    /\ UNCHANGED << fvars, shared, nreq, tvars, prid, request, sin_modelo, pcarga, estudiante, encoded, nota >>

\* Lines 169-175 and PrediccionView.post lines 76-85.
PredRespond ==
    /\ ppc = "resp"
    /\ presp' = [status |-> 200, error |-> "", body |-> create_response(nota, diferencia_std)]
    /\ ppc' = "idle"
    /\ UNCHANGED << fvars, shared, nreq, tvars, prid, request, sin_modelo, pcarga, estudiante, encoded, pused,
                    nota, diferencia_std >>

\* ------------------------------------------------------------ specifications
\* The statements of a request once it has started.
TrainSteps ==
    \/ TrainCargar \/ TrainCargarOk \/ TrainCargarExc
    \/ TrainNew \/ TrainFitBegin \/ TrainFitEnd \/ TrainEval
    \/ TrainSaveOpen \/ TrainSaveDump \/ TrainFlag

PredSteps ==
    \/ PredCheck \/ PredCargar \/ PredCargarOk \/ PredCargarExc
    \/ PredUnavailable \/ PredPredict \/ PredTrees \/ PredRespond

\* The two request threads of the server interleave statement by statement.
Next ==
    \/ TrainStart
    \/ TrainRead(ConcDatasets)
    \/ TrainSteps
    \/ PredStart(ConcRequests)
    \/ PredSteps

Spec == Init /\ [][Next]_vars

\* One request at a time: a request starts when no other is being served.
\* The requests to POST /predecir range over Requests.
NextSeq ==
    \/ ppc = "idle" /\ TrainStart
    \/ TrainRead(ConcDatasets)
    \/ TrainSteps
    \/ tpc = "idle" /\ PredStart(Requests)
    \/ PredSteps

SpecSeq == Init /\ [][NextSeq]_vars

\* One request at a time; the dataset file ranges over Datasets.
NextTrain ==
    \/ ppc = "idle" /\ TrainStart
    \/ TrainRead(Datasets)
    \/ TrainSteps
    \/ tpc = "idle" /\ PredStart(ConcRequests)
    \/ PredSteps

SpecTrain == Init /\ [][NextTrain]_vars

\* predecir at line 169, on a loaded model, for every sampled prediction and
\* spread: the response classifier alone.
InitResp ==
    /\ modelo = 1
    /\ is_loaded = TRUE
    /\ heap = [o \in Objects |-> IF o = 1 THEN [st |-> "fitted", content |-> 0] ELSE FreeObj]
    /\ disk = Pickle([st |-> "fitted", content |-> 0])
    /\ nreq = 1
    /\ tpc = "idle" /\ trid = 0 /\ forzar_reentrenamiento = FALSE /\ tref = 0
    /\ texiste = FALSE /\ tcarga = "none"
    /\ tdatos = NoDatos /\ tsaved = "none" /\ tresp = NoTResp /\ tantes = NoAntes
    /\ ppc = "resp" /\ prid = 1 /\ request = BaseRequest
    /\ sin_modelo = TRUE /\ pcarga = "pickle"
    /\ estudiante = EstudianteRequest(BaseRequest)
    /\ encoded = TRUE
    /\ pused = << [obj |-> 1, st |-> "fitted"], [obj |-> 1, st |-> "fitted"] >>
    /\ nota \in ScoreSamples
    /\ diferencia_std \in SpreadSamples
    /\ presp = NoPResp
    /\ fn_args = NoCall /\ fn_ret = NoRet

SpecResp == InitResp /\ [][PredRespond]_vars

\* --------------------------------------------- the serializers called alone
\* Labels passed to generar_mensaje: the three of its dictionaries and two
\* that are in neither.
LabelSamples == {"alto", "medio", "bajo", "excelente", ""}

\* The calls: generar_mensaje on every sampled score and pair of labels,
\* to_features_array on every validated request, limpiar_datos on every
\* dataset that passed validar_columnas.
FunCalls ==
    { [fn |-> "generar_mensaje", nota |-> n, clasificacion |-> c, confianza |-> k] :
        n \in ScoreSamples, c \in LabelSamples, k \in LabelSamples }
    \cup { [fn |-> "to_features_array", estudiante |-> EstudianteRequest(r)] :
              r \in { q \in Requests : EstudianteRequestValid(q) } }
    \cup { [fn |-> "limpiar_datos", df |-> ds] :
              ds \in { d \in Datasets : d.exists /\ validar_columnas(d) } }

InitFun ==
    /\ modelo = 0
    /\ is_loaded = FALSE
    /\ heap = [o \in Objects |-> FreeObj]
    /\ disk = Absent
    /\ nreq = 0
    /\ tpc = "idle" /\ trid = 0 /\ forzar_reentrenamiento = FALSE /\ tref = 0
    /\ texiste = FALSE /\ tcarga = "none"
    /\ tdatos = NoDatos /\ tsaved = "none" /\ tresp = NoTResp /\ tantes = NoAntes
    /\ ppc = "idle" /\ prid = 0 /\ request = BaseRequest /\ estudiante = NoEstudiante
    /\ sin_modelo = FALSE /\ pcarga = "none"
    /\ encoded = FALSE /\ pused = << >> /\ nota = 0 /\ diferencia_std = 0
    /\ presp = NoPResp
    /\ fn_args \in FunCalls
    /\ fn_ret = NoRet

CallGenerarMensaje ==
    /\ fn_args.fn = "generar_mensaje"
    /\ ~fn_ret.done
    /\ fn_ret' = [done |-> TRUE,
                  value |-> generar_mensaje(fn_args.nota, fn_args.clasificacion,
                                            fn_args.confianza)]
    /\ UNCHANGED << shared, nreq, tvars, pvars, fn_args >>

CallToFeaturesArray ==
    /\ fn_args.fn = "to_features_array"
    /\ ~fn_ret.done
    /\ fn_ret' = [done |-> TRUE, value |-> to_features_array(fn_args.estudiante)]
    /\ UNCHANGED << shared, nreq, tvars, pvars, fn_args >>

CallLimpiarDatos ==
    /\ fn_args.fn = "limpiar_datos"
    /\ ~fn_ret.done
    /\ fn_ret' = [done |-> TRUE, value |-> limpiar_datos(fn_args.df)]
    /\ UNCHANGED << shared, nreq, tvars, pvars, fn_args >>

NextFun ==
    \/ CallGenerarMensaje
    \/ CallToFeaturesArray
    \/ CallLimpiarDatos

SpecFun == InitFun /\ [][NextFun]_vars

\* ------------------------------------------------------------------- claims
Unavailable == "Modelo no disponible. Debe entrenar primero."

\* C1: a predecir interleaved with entrenar_modelo calls only into fully
\* fitted model objects, and a validated request ends in a result or in the
\* model-unavailable error; it never uses an object that training has put in
\* self.modelo and not finished fitting.
C1_PredictNeverUsesUnfinishedModel ==
    /\ \A i \in DOMAIN pused : pused[i].st = "fitted"
    /\ (prid > 0 /\ ppc = "idle" /\ EstudianteRequestValid(request))
          => (presp.status = 200 \/ presp.error = Unavailable)

\* C2: predecir called with no model loaded attempts the load; with no
\* artifact it fails with the model-unavailable error and no result; after a
\* successful load it predicts with the loaded object and the service is
\* marked loaded.
C2_PredecirLoadsWhenNoModel ==
    (prid > 0 /\ prid = nreq /\ ppc = "idle" /\ sin_modelo) =>
        /\ pcarga # "none"
        /\ pcarga = "absent" =>
              /\ presp.status # 200
              /\ presp.error = Unavailable
              /\ presp.body = NoBody
              /\ pused = << >>
              /\ ~encoded
        /\ pcarga = "pickle" =>
              /\ is_loaded
              /\ modelo = prid
              /\ heap[prid] = [st |-> "fitted", content |-> disk.content]
              /\ pused = << [obj |-> prid, st |-> "fitted"], [obj |-> prid, st |-> "fitted"] >>
              /\ presp.status = 200

C2_Witness ==
    /\ prid = nreq /\ ppc = "idle" /\ sin_modelo
    /\ pcarga = "pickle" /\ is_loaded /\ presp.status = 200

\* A field as C3 words it: missing, non-numeric, or outside [0, 100].
C3_BadField(value) ==
    \/ value.kind = "missing"
    \/ value.kind \in {"strbad", "strnan", "null"}
    \/ value.kind \in {"num", "strnum"} /\ (value.v < 0 \/ value.v > 100 * Scale)

\* C3: a POST /predecir whose body has a field missing, non-numeric or
\* outside [0, 100] is answered 400 with the validation error, and neither
\* to_features_array nor the model (load or predict) is reached for it.
C3_InvalidRequestRejectedBeforeModel ==
    (prid > 0 /\ \E f \in Fields : C3_BadField(request[f])) =>
        /\ ppc = "idle"
        /\ presp.status = 400
        /\ presp.error = "Datos invalidos: ..."
        /\ presp.body = NoBody
        /\ ~encoded
        /\ pused = << >>
        /\ ~sin_modelo
        /\ pcarga = "none"

C3_Witness ==
    /\ prid > 0
    /\ request["asistencia_t1"] = Num(150 * Scale)
    /\ presp.status = 400
    /\ ~encoded

\* C4: clasificar_nota gives bajo below 65.0, medio from 65.0 to below 85.0
\* and alto from 85.0 up.
C4_ClasificarNotaBands ==
    presp.status = 200 =>
        /\ nota < 65 * Scale => presp.body.clasificacion = "bajo"
        /\ (nota >= 65 * Scale /\ nota < 85 * Scale) => presp.body.clasificacion = "medio"
        /\ nota >= 85 * Scale => presp.body.clasificacion = "alto"

C4_Witness ==
    /\ presp.status = 200
    /\ nota = 65 * Scale
    /\ presp.body.clasificacion = "medio"

\* C5: evaluar_confianza gives alto up to 5.0, medio above 5.0 up to 10.0 and
\* bajo above 10.0.
C5_EvaluarConfianzaBands ==
    presp.status = 200 =>
        /\ diferencia_std <= 5 * Scale => presp.body.nivel_confianza = "alto"
        /\ (diferencia_std > 5 * Scale /\ diferencia_std <= 10 * Scale)
              => presp.body.nivel_confianza = "medio"
        /\ diferencia_std > 10 * Scale => presp.body.nivel_confianza = "bajo"

C5_Witness ==
    /\ presp.status = 200
    /\ diferencia_std = 10 * Scale
    /\ presp.body.nivel_confianza = "medio"

YaCargado ==
    [status |-> 200, mensaje |-> "Modelo ya existe y fue cargado", cargado |-> TRUE,
     n_train |-> 0, n_test |-> 0]

\* C6, as claimed: with the artifact present and forzar_reentrenamiento
\* false, entrenar_modelo loads it, returns the already-loaded report and
\* skips fitting: no dataset read, no fit, no write of the artifact.
C6_ExistingArtifactSkipsFitting ==
    (trid > 0 /\ trid = nreq /\ tpc = "idle" /\ texiste /\ ~forzar_reentrenamiento) =>
        /\ tcarga = "pickle"
        /\ tresp = YaCargado
        /\ tdatos = NoDatos
        /\ tref = 0
        /\ tsaved = "none"

\* C6, amended: with the artifact present and forzar_reentrenamiento false,
\* entrenar_modelo attempts the load; when the load succeeds it returns the
\* already-loaded report and skips fitting (no dataset read, no fit, no
\* write of the artifact, the loaded object in self.modelo); when the load
\* raises it goes on to the full training and reads the dataset.
C6_LoadableArtifactSkipsFitting ==
    (trid > 0 /\ trid = nreq /\ tpc = "idle" /\ texiste /\ ~forzar_reentrenamiento) =>
        /\ tcarga \in {"pickle", "corrupt"}
        /\ tcarga = "pickle" =>
              /\ tresp = YaCargado
              /\ tdatos = NoDatos
              /\ tref = 0
              /\ tsaved = "none"
              /\ is_loaded
              /\ modelo = trid
              /\ disk = Pickle(heap[trid])
        /\ tcarga = "corrupt" =>
              /\ tdatos # NoDatos
              /\ tresp # YaCargado

C6_Witness ==
    /\ trid > 0 /\ trid = nreq /\ tpc = "idle" /\ texiste /\ ~forzar_reentrenamiento
    /\ tcarga = "pickle"
    /\ tresp = YaCargado

\* C7: when fit and evaluation succeeded and guardar_modelo failed,
\* entrenar_modelo returns the success report (message, sizes, cargado) and
\* the service is marked loaded.
C7_SaveFailureStillSuccess ==
    (tpc = "idle" /\ tsaved = "no") =>
        /\ tresp = [status |-> 200, mensaje |-> "Modelo entrenado exitosamente",
                    cargado |-> TRUE, n_train |-> tdatos.n_train, n_test |-> tdatos.n_test]
        /\ tdatos.ok
        /\ is_loaded

C7_Witness ==
    /\ tpc = "idle" /\ tsaved = "no"
    /\ disk = Corrupt
    /\ tresp.status = 200 /\ tresp.cargado

\* C8: a training whose dataset has every required column and no row left
\* after cleaning fails with the empty-partition error: no report, no model
\* object created or fitted, nothing saved.
C8_EmptyDatasetFails ==
    tdatos.filas = 0 =>
        /\ tpc = "idle"
        /\ tresp = TrainError("the resulting train set will be empty")
        /\ tref = 0
        /\ tsaved = "none"
        /\ heap[trid] = FreeObj

C8_Witness ==
    /\ tdatos.filas_total = MaxRows
    /\ tdatos.filas = 0
    /\ tresp.status = 500

\* C9: POST /predecir answers 400 only for a request that fails validation;
\* a validated request that fails is answered 5xx with the generic message.
C9_Only400OnValidation ==
    (prid > 0 /\ ppc = "idle") =>
        /\ presp.status = 400 => ~EstudianteRequestValid(request)
        /\ (EstudianteRequestValid(request) /\ presp.status # 200) =>
              /\ presp.status >= 500
              /\ presp.error = "Error interno del servidor"

\* The bands of C10 on reported values.
C10_Tier(x) ==
    IF x < 65 * Scale THEN "bajo" ELSE IF x < 85 * Scale THEN "medio" ELSE "alto"

C10_Confidence(x) ==
    IF x <= 5 * Scale THEN "alto" ELSE IF x <= 10 * Scale THEN "medio" ELSE "bajo"

\* C10: in every response of create_response the tier is the band of the
\* reported nota_estimada and the confidence is the band of the reported
\* confianza_valor.
C10_LabelsMatchReportedValues ==
    presp.status = 200 =>
        /\ presp.body.clasificacion = C10_Tier(presp.body.nota_estimada)
        /\ presp.body.nivel_confianza = C10_Confidence(presp.body.confianza_valor)

\* The sentence and the qualifier of C11, by label.
C11_Sentence(clasificacion) ==
    CASE clasificacion = "alto" -> "Excelente trabajo! Se estima una nota de {nota:.1f} (rendimiento alto)"
      [] clasificacion = "medio" -> "Buen rendimiento. Se estima una nota de {nota:.1f} (rendimiento medio)"
      [] clasificacion = "bajo" -> "Hay oportunidades de mejora. Se estima una nota de {nota:.1f} (rendimiento bajo)"
      [] OTHER -> "Se estima una nota de {nota:.1f}"

C11_Qualifier(confianza) ==
    CASE confianza = "alto" -> "con alta confianza"
      [] confianza = "medio" -> "con confianza moderada"
      [] confianza = "bajo" -> "con baja confianza"
      [] OTHER -> ""

C11_Called == fn_args.fn = "generar_mensaje" /\ fn_ret.done

\* C11 as claimed: generar_mensaje returns the sentence of the tier with the
\* qualifier of the confidence level, and for a tier that is none of the
\* three known ones the generic sentence with no qualifier, whatever the
\* confidence level.
C11_UnknownTierWithoutQualifier ==
    C11_Called =>
        /\ fn_ret.value[1] = C11_Sentence(fn_args.clasificacion)
        /\ fn_ret.value[2] = format1f(fn_args.nota)
        /\ fn_ret.value[4] =
              IF fn_args.clasificacion \in {"alto", "medio", "bajo"}
              THEN C11_Qualifier(fn_args.confianza)
              ELSE ""

\* C11, amended: generar_mensaje returns the sentence of the tier (the
\* generic one for an unknown tier) followed by the qualifier of the
\* confidence level, for every tier, known or not; the qualifier is empty
\* only for an unknown confidence level.
C11_QualifierForEveryTier ==
    C11_Called =>
        /\ Len(fn_ret.value) = 5
        /\ fn_ret.value[1] = C11_Sentence(fn_args.clasificacion)
        /\ fn_ret.value[2] = format1f(fn_args.nota)
        /\ fn_ret.value[3] = " "
        /\ fn_ret.value[4] = C11_Qualifier(fn_args.confianza)
        /\ fn_ret.value[5] = "."
        /\ (fn_ret.value[4] = "") = (fn_args.confianza \notin {"alto", "medio", "bajo"})

C11_Witness ==
    /\ C11_Called
    /\ fn_args.clasificacion = "excelente"
    /\ fn_args.confianza = "alto"
    /\ fn_ret.value[1] = "Se estima una nota de {nota:.1f}"
    /\ fn_ret.value[4] = "con alta confianza"

\* The last request is over and its cargar_modelo read the artifact.
C12_Loaded ==
    /\ nreq > 0 /\ tpc = "idle" /\ ppc = "idle"
    /\ \/ trid = nreq /\ tcarga = "pickle"
       \/ prid = nreq /\ pcarga = "pickle"

C13_Called == fn_args.fn = "to_features_array" /\ fn_ret.done

\* C13: the vector to_features_array builds has 8 elements, and its element
\* at each position is the field of the student named at that position of
\* FEATURE_COLUMNS, the column list the training selects X with:
\* prom_tareas_t1, prom_examenes_t1, prom_part_t1, asistencia_t1,
\* prom_tareas_t2, prom_examenes_t2, prom_part_t2, asistencia_t2.
C13_FeatureOrderIsTrainingOrder ==
    C13_Called =>
        /\ Len(fn_ret.value) = 8
        /\ FEATURE_COLUMNS =
              << "prom_tareas_t1", "prom_examenes_t1", "prom_part_t1", "asistencia_t1",
                 "prom_tareas_t2", "prom_examenes_t2", "prom_part_t2", "asistencia_t2" >>
        /\ \A i \in 1..8 : fn_ret.value[i] = fn_args.estudiante[FEATURE_COLUMNS[i]]

\* The example request, whose 8 fields differ from one another, encoded.
C13_Witness ==
    /\ C13_Called
    /\ fn_args.estudiante = EstudianteRequest(BaseRequest)
    /\ Cardinality({ fn_args.estudiante[f] : f \in Fields }) = 8
    /\ fn_ret.value = << 85 * Scale, 78 * Scale, 92 * Scale, 95 * Scale,
                         87 * Scale, 82 * Scale, 88 * Scale, 93 * Scale >>

C14_Called == fn_args.fn = "limpiar_datos" /\ fn_ret.done

\* A row with no missing value whose 8 features and target are in [0, 100].
C14_Keep(df, row) ==
    /\ \A c \in df.columns : ~row[c].na
    /\ \A c \in Range(FEATURE_COLUMNS) \cup {TARGET_COLUMN} :
          row[c].v >= 0 /\ row[c].v <= 100 * Scale

\* C14: limpiar_datos returns, in their order, exactly the input rows that
\* have no missing value and whose 8 features and target lie in [0, 100]:
\* every returned row is such a row and no such row is dropped.
C14_LimpiarDatosExact ==
    C14_Called =>
        /\ fn_ret.value.columns = fn_args.df.columns
        /\ fn_ret.value.rows =
              SelectSeq(fn_args.df.rows, LAMBDA row : C14_Keep(fn_args.df, row))
        /\ \A i \in DOMAIN fn_ret.value.rows : C14_Keep(fn_args.df, fn_ret.value.rows[i])

\* A row with a missing value in a column that is not required is dropped,
\* the row at both ends of the range is kept.
C14_Witness ==
    /\ C14_Called
    /\ "extra" \in fn_args.df.columns
    /\ Len(fn_args.df.rows) = 2
    /\ fn_args.df.rows[1]["extra"].na
    /\ fn_args.df.rows[2]["prom_tareas_t1"] = Cell(0)
    /\ fn_args.df.rows[2][TARGET_COLUMN] = Cell(100 * Scale)
    /\ fn_ret.value.rows = << fn_args.df.rows[2] >>

\* C15: when the last training ended with an error, self.modelo and
\* self.is_loaded are what they were when entrenar_modelo was called.
C15_FailedTrainingKeepsModel ==
    (trid > 0 /\ trid = nreq /\ tpc = "idle" /\ tresp.status = 500) =>
        /\ modelo = tantes.modelo
        /\ is_loaded = tantes.is_loaded

\* C16: whenever the most recent training returned a success report, the
\* artifact on disk holds the model that is in memory.
C16_SuccessReportMeansArtifactIsModel ==
    (trid > 0 /\ tpc = "idle" /\ tresp.status = 200) =>
        /\ modelo # 0
        /\ disk = Pickle(heap[modelo])

=============================================================================
